---- MODULE Spec2Model ----
(***************************************************************************)
(* Model of the icon generator scripts generate_icon.py and                *)
(* generate_icon_custom.py: prompt construction, one generation request,   *)
(* extraction and decoding of the first inline image, the iconset loop     *)
(* and the iconutil invocation, over a small file system.                  *)
(*                                                                         *)
(* Python str values are sequences of tokens (one-character strings where  *)
(* a conversion looks at characters), bytes values are sequences of        *)
(* integers 0..255.                                                        *)
(***************************************************************************)
EXTENDS Integers, Sequences, FiniteSets, TLC

VARIABLES fs, proc, runs

vars == <<fs, proc, runs>>

(***************************************************************************)
(* Bounds                                                                  *)
(***************************************************************************)
MaxRuns == 2
MaxParts == 2

Procs == {1, 2}

(***************************************************************************)
(* Pure helpers                                                            *)
(***************************************************************************)
\* the result of a conversion that raises; no byte or code point is negative
Raised == <<-1>>

Whitespace == {" ", "\t", "\n"}

RECURSIVE lstrip(_)
lstrip(s) ==
  IF s # <<>> /\ Head(s) \in Whitespace THEN lstrip(Tail(s)) ELSE s

RECURSIVE rstrip(_)
rstrip(s) ==
  IF s # <<>> /\ s[Len(s)] \in Whitespace
  THEN rstrip(SubSeq(s, 1, Len(s) - 1))
  ELSE s

strip(s) == rstrip(lstrip(s))

\* `x or default` on a str: the empty string is falsy
OrDefault(s, d) == IF s = <<>> THEN d ELSE s

B64Chars ==
  << "A","B","C","D","E","F","G","H","I","J","K","L","M","N","O","P",
     "Q","R","S","T","U","V","W","X","Y","Z","a","b","c","d","e","f",
     "g","h","i","j","k","l","m","n","o","p","q","r","s","t","u","v",
     "w","x","y","z","0","1","2","3","4","5","6","7","8","9","+","/" >>

IsB64Char(c) == \E i \in 1..64 : B64Chars[i] = c

B64Val(c) == (CHOOSE i \in 1..64 : B64Chars[i] = c) - 1

\* binascii.a2b_base64 in its default (non-strict) mode, as used by
\* base64.b64decode(s) without validate: characters outside the alphabet
\* are skipped, a complete pad sequence ends the parse, and data that
\* stops inside a quad raises binascii.Error.
RECURSIVE B64Scan(_, _, _, _, _)
B64Scan(s, quad, left, pads, out) ==
  IF s = <<>> THEN (IF quad # 0 THEN Raised ELSE out)
  ELSE LET c == Head(s) IN
    IF c = "="
    THEN IF quad >= 2 /\ quad + pads + 1 >= 4
         THEN out
         ELSE B64Scan(Tail(s), quad, left,
                      IF quad >= 2 THEN pads + 1 ELSE pads, out)
    ELSE IF ~IsB64Char(c)
    THEN B64Scan(Tail(s), quad, left, pads, out)
    ELSE LET v == B64Val(c) IN
      CASE quad = 0 -> B64Scan(Tail(s), 1, v, 0, out)
        [] quad = 1 -> B64Scan(Tail(s), 2, v % 16, 0,
                               Append(out, left * 4 + v \div 16))
        [] quad = 2 -> B64Scan(Tail(s), 3, v % 4, 0,
                               Append(out, left * 16 + v \div 4))
        [] quad = 3 -> B64Scan(Tail(s), 0, 0, 0,
                               Append(out, left * 64 + v))

b64decode(s) == B64Scan(s, 0, 0, 0, <<>>)

\* bytes.decode() with the default codec (utf-8) and errors="strict";
\* one- and two-byte sequences are decoded, any other lead byte raises
\* UnicodeDecodeError (the inputs of the model use no longer sequences).
RECURSIVE Utf8Scan(_, _)
Utf8Scan(b, out) ==
  IF b = <<>> THEN out
  ELSE IF b[1] < 128 THEN Utf8Scan(Tail(b), Append(out, b[1]))
  ELSE IF b[1] >= 194 /\ b[1] <= 223 /\ Len(b) >= 2
          /\ b[2] >= 128 /\ b[2] <= 191
  THEN Utf8Scan(SubSeq(b, 3, Len(b)),
                Append(out, (b[1] - 192) * 64 + (b[2] - 128)))
  ELSE Raised

decode(b) == Utf8Scan(b, <<>>)

(***************************************************************************)
(* Prompt builder                                                          *)
(***************************************************************************)
StyleKeys == {"modern", "flat", "skeuomorphic", "minimal", "playful"}

style_hints ==
  [k \in StyleKeys |->
    CASE k = "modern" ->
           "Clean, modern, professional vector-like graphic with subtle gradients."
      [] k = "flat" -> "Flat design, bold colors, no gradients or shadows."
      [] k = "skeuomorphic" ->
           "Realistic 3D appearance with textures, shadows, and depth."
      [] k = "minimal" ->
           "Ultra-minimalist, single color on white, simple geometric shapes."
      [] k = "playful" ->
           "Bright colors, rounded shapes, friendly and approachable style."]

\* variant: the fallback for an unknown key is the wrong table entry
style_desc_flat(style) ==
  IF Len(style) = 1 /\ style[1] \in StyleKeys
  THEN style_hints[style[1]]
  ELSE style_hints["flat"]

\* dict.get(style, style_hints["modern"]); a style is a token sequence and
\* matches a key only when it is exactly that one token
style_desc(style) ==
  IF Len(style) = 1 /\ style[1] \in StyleKeys
  THEN style_hints[style[1]]
  ELSE style_hints["modern"]

build_prompt(theme, style) ==
  <<"Create a raw app icon texture for: \"">> \o theme
  \o <<"\".\n\nCRITICAL INSTRUCTION: Generate a FULL BLEED SQUARE image.\n- DO NOT render a rounded icon shape inside a background.\n- DO NOT add drop shadows or 3D borders around the edges.\n- The image must look like a flat square texture that fills the ENTIRE canvas 100%.\n\nDesign requirements:\n- A central symbol or illustration representing the theme \"">>
  \o theme
  \o <<"\".\n- Use harmonious, professional color palette appropriate for the theme.\n- Background: Solid or subtle gradient that extends to all 4 corners.\n- Style: ">>
  \o <<style_desc(style)>>
  \o <<"\n">>

\* the literal prompt of generate_icon.py
FixedPrompt ==
  <<"Create a raw app icon texture for a 'Git Worktree Manager'.\n    \n    CRITICAL INSTRUCTION: Generate a FULL BLEED SQUARE image. \n    - DO NOT render a rounded icon shape inside a background.\n    - DO NOT add drop shadows or 3D borders around the edges.\n    - The image must look like a flat square texture that fills the ENTIRE canvas 100%.\n    \n    Design:\n    - A central abstract tree symbol (git branches/nodes style).\n    - Colors: Deep Teal (#0D9488) to Purple (#8B5CF6) gradient.\n    - Background: Solid white or very light gray gradient. The background must extend to all 4 corners.\n    - Style: Clean, modern, professional vector-like graphic.\n    ">>

(***************************************************************************)
(* File system                                                             *)
(***************************************************************************)
custom_icon == <<"custom_icon">>
weather == <<"weather">>

Names == {custom_icon, weather, <<"icon">>, <<"AppIcon">>}
Suffixes == {"_generated.png", ".iconset", ".icns"}
Paths == Names \X Suffixes

NoFile == [type |-> "none", data |-> <<>>, entries |-> {}]
File(d) == [type |-> "file", data |-> d, entries |-> {}]
Dir(e) == [type |-> "dir", data |-> <<>>, entries |-> e]
\* the container iconutil compiles from the entries of an iconset
Icns(e) == [type |-> "icns", data |-> <<>>, entries |-> e]

\* the three paths of a run, relative to the script's directory
raw_output_path(script, output_name) ==
  IF script = "fixed" THEN <<(<<"icon">>), "_generated.png">>
  ELSE <<output_name, "_generated.png">>

\* variant: one staging directory for every output name
iconset_path_shared(script, output_name) ==
  <<(<<"AppIcon">>), ".iconset">>

iconset_path(script, output_name) ==
  IF script = "fixed" THEN <<(<<"AppIcon">>), ".iconset">>
  ELSE <<output_name, ".iconset">>

icns_path(script, output_name) ==
  IF script = "fixed" THEN <<(<<"AppIcon">>), ".icns">>
  ELSE <<output_name, ".icns">>

(***************************************************************************)
(* Icon sizes, names and mask                                              *)
(***************************************************************************)
sizes == <<16, 32, 128, 256, 512>>

\* int(min(w, h) * 0.223)
radius(w, h) == ((IF w < h THEN w ELSE h) * 223) \div 1000

\* f"icon_{size}x{size}.png" and f"icon_{size}x{size}@2x.png"
icon_name(size, retina) ==
  <<"icon_", size, "x", size, IF retina THEN "@2x" ELSE "", ".png">>

\* the image saved in the i-th save of the loop, i in 1..10: the loop
\* writes the 1x image of sizes[k], then its 2x image
SaveEntry(i, img) ==
  LET size == sizes[(i + 1) \div 2]
      retina == (i % 2 = 0)
      edge == IF retina THEN size * 2 ELSE size
  IN [name |-> icon_name(size, retina), w |-> edge, h |-> edge,
      radius |-> radius(edge, edge), src |-> img]

NumSaves == 2 * Len(sizes)

\* Path.__truediv__ + save: a file of that name is replaced
SaveInto(entries, e) == {f \in entries : f.name # e.name} \cup {e}

(***************************************************************************)
(* Responses of the generation service                                     *)
(***************************************************************************)
Bytes(b) == [kind |-> "bytes", bytes |-> b, text |-> <<>>]
Str(t) == [kind |-> "str", bytes |-> <<>>, text |-> t]

TextPart == [inline |-> FALSE, data |-> Bytes(<<>>)]
InlinePart(d) == [inline |-> TRUE, data |-> d]

ImgA == <<137, 80, 1>>
ImgB == <<137, 80, 2>>

\* Image.open identifies the format from the leading signature bytes
IsImage(b) == Len(b) >= 3 /\ b[1] = 137 /\ b[2] = 80

Payloads ==
  { Bytes(ImgA),                    \* image bytes
    Str(<<"i", "V", "A", "C">>),    \* base64 text of ImgB
    Bytes(<<1, 2, 3>>),             \* bytes that are no image
    Str(<<"i", "V", "A">>) }        \* base64 text with incorrect padding

PartKinds == {TextPart} \cup {InlinePart(d) : d \in Payloads}

RECURSIVE SeqsUpTo(_, _)
SeqsUpTo(S, n) ==
  IF n = 0 THEN {<<>>}
  ELSE LET R == SeqsUpTo(S, n - 1)
       IN R \cup {Append(r, x) : r \in {t \in R : Len(t) = n - 1}, x \in S}

Responses == SeqsUpTo(PartKinds, MaxParts)

\* variant: the loop does not return at the first image, the last one wins
LastInline(parts) ==
  IF \E i \in 1..Len(parts) : parts[i].inline
  THEN CHOOSE i \in 1..Len(parts) :
         parts[i].inline /\ \A j \in (i + 1)..Len(parts) : ~parts[j].inline
  ELSE 0

\* index of the first part with inline data, 0 when there is none
FirstInline(parts) ==
  IF \E i \in 1..Len(parts) : parts[i].inline
  THEN CHOOSE i \in 1..Len(parts) :
         parts[i].inline /\ \A j \in 1..(i - 1) : ~parts[j].inline
  ELSE 0

\* raw_data if isinstance(raw_data, bytes) else base64.b64decode(raw_data)
image_data_of(raw_data) ==
  IF raw_data.kind = "bytes" THEN raw_data.bytes ELSE b64decode(raw_data.text)

\* stderr of a failing iconutil: "err", "\u00e9" and a byte that is no UTF-8
Stderrs == { <<101, 114, 114>>, <<195, 169>>, <<255>> }

(***************************************************************************)
(* Processes                                                               *)
(***************************************************************************)
Line(m, a) == [msg |-> m, arg |-> a]

Fresh(pc0) ==
  [pc |-> pc0, script |-> "custom", theme |-> <<>>, output_name |-> <<>>,
   style |-> <<>>, prompt |-> <<>>, parts |-> <<>>, image_data |-> <<>>,
   img |-> <<>>, i |-> 0, stdout |-> <<>>, exc |-> "", inputs |-> 0,
   requests |-> 0, raw_writes |-> 0, rmtrees |-> 0, mkdirs |-> 0,
   tool_calls |-> 0, tool |-> "", packaged |-> {}, touched |-> {}]

\* exit status of a terminated process: 1 for sys.exit(1) and for an
\* uncaught exception, 0 for a return from main
ExitStatus(q) == IF q.exc = "" THEN 0 ELSE 1

Set(p, r) == proc' = [proc EXCEPT ![p] = r]

Raise(q, e) == [q EXCEPT !.pc = "done", !.exc = e]

Emit(q, m, a) == [q EXCEPT !.stdout = Append(@, Line(m, a))]

\* the paths a process has created, written, truncated or removed
Touch(q, path) == [q EXCEPT !.touched = @ \cup {path}]

(***************************************************************************)
(* Inputs                                                                  *)
(***************************************************************************)
Theme == <<"Weather", " ", "App">>

\* sys.argv: the script name followed by the command-line arguments
Argvs ==
  { <<(<<"prog">>)>>,
    <<(<<"prog">>), Theme>>,
    <<(<<"prog">>), Theme, custom_icon>>,
    <<(<<"prog">>), Theme, custom_icon, (<<"flat">>)>> }

ThemeInputs == { <<>>, <<" ">>, <<" ", "Weather", " ", "App", "\n">> }
NameInputs == { <<>>, <<" ", "custom_icon">> }
StyleInputs == { <<" ">>, <<"retro">> }

Scripts == {"custom", "fixed"}

(***************************************************************************)
(* main                                                                    *)
(***************************************************************************)
\* generate_icon_custom.py main(): arguments, or the interactive header
main(p, argvs) ==
  /\ proc[p].pc = "start"
  /\ proc[p].script = "custom"
  /\ \E argv \in argvs :
       IF Len(argv) > 1
       THEN Set(p, [proc[p] EXCEPT
              !.theme = argv[2],
              !.output_name = IF Len(argv) > 2 THEN argv[3] ELSE custom_icon,
              !.style = IF Len(argv) > 3 THEN argv[4] ELSE <<"modern">>,
              !.pc = "generate"])
       ELSE Set(p, [Emit(Emit(proc[p], "Icon Generator", <<>>),
                         "----------------------------------------", <<>>)
                    EXCEPT !.pc = "input_theme"])
  /\ UNCHANGED <<fs, runs>>

\* generate_icon.py __main__: generate_icon() without parameters
main_fixed(p) ==
  /\ proc[p].pc = "start"
  /\ proc[p].script = "fixed"
  /\ Set(p, [proc[p] EXCEPT !.pc = "generate"])
  /\ UNCHANGED <<fs, runs>>

\* variant: the message is printed but the process does not exit
input_theme_no_exit(p, inputs) ==
  /\ proc[p].pc = "input_theme"
  /\ \E t \in inputs :
       LET q == [proc[p] EXCEPT !.inputs = @ + 1, !.theme = strip(t)]
       IN IF strip(t) = <<>>
          THEN Set(p, [Emit(q, "Theme is required.", <<>>)
                       EXCEPT !.pc = "input_name"])
          ELSE Set(p, [q EXCEPT !.pc = "input_name"])
  /\ UNCHANGED <<fs, runs>>

\* theme = input(...).strip(); an empty theme is sys.exit(1)
input_theme(p, inputs) ==
  /\ proc[p].pc = "input_theme"
  /\ \E t \in inputs :
       LET q == [proc[p] EXCEPT !.inputs = @ + 1, !.theme = strip(t)]
       IN IF strip(t) = <<>>
          THEN Set(p, Raise(Emit(q, "Theme is required.", <<>>), "SystemExit"))
          ELSE Set(p, [q EXCEPT !.pc = "input_name"])
  /\ UNCHANGED <<fs, runs>>

input_name(p, inputs) ==
  /\ proc[p].pc = "input_name"
  /\ \E t \in inputs :
       Set(p, [proc[p] EXCEPT !.inputs = @ + 1,
                 !.output_name = OrDefault(strip(t), custom_icon),
                 !.pc = "input_style"])
  /\ UNCHANGED <<fs, runs>>

input_style(p, inputs) ==
  /\ proc[p].pc = "input_style"
  /\ \E t \in inputs :
       Set(p, [Emit(proc[p],
                    "Available styles: modern, flat, skeuomorphic, minimal, playful",
                    <<>>)
               EXCEPT !.inputs = @ + 1,
                 !.style = OrDefault(strip(t), <<"modern">>),
                 !.pc = "generate"])
  /\ UNCHANGED <<fs, runs>>

(***************************************************************************)
(* generate_icon                                                           *)
(***************************************************************************)
\* prompt construction and the progress line before the request
generate_icon(p) ==
  /\ proc[p].pc = "generate"
  /\ Set(p, [(IF proc[p].script = "fixed"
              THEN Emit(proc[p], "Generating base icon image...", <<>>)
              ELSE Emit(proc[p], "Generating icon for theme",
                        proc[p].theme \o proc[p].style)) EXCEPT
               !.prompt = IF proc[p].script = "fixed" THEN FixedPrompt
                          ELSE build_prompt(proc[p].theme, proc[p].style),
               !.pc = "request"])
  /\ UNCHANGED <<fs, runs>>

\* client.models.generate_content returns a response
generate_content(p, responses) ==
  /\ proc[p].pc = "request"
  /\ \E r \in responses :
       Set(p, [proc[p] EXCEPT !.requests = @ + 1, !.parts = r, !.pc = "scan"])
  /\ UNCHANGED <<fs, runs>>

\* variant: the first failure is retried
generate_content_retry(p) ==
  /\ proc[p].pc = "request"
  /\ IF proc[p].requests = 0
     THEN Set(p, [proc[p] EXCEPT !.requests = @ + 1])
     ELSE Set(p, Raise([proc[p] EXCEPT !.requests = @ + 1], "APIError"))
  /\ UNCHANGED <<fs, runs>>

\* client.models.generate_content raises: nothing catches it
generate_content_error(p) ==
  /\ proc[p].pc = "request"
  /\ Set(p, Raise([proc[p] EXCEPT !.requests = @ + 1], "APIError"))
  /\ UNCHANGED <<fs, runs>>

\* variant: a response without an image ends the process with sys.exit(1)
scan_parts_fatal(p) ==
  /\ proc[p].pc = "scan"
  /\ LET k == FirstInline(proc[p].parts) IN
       IF k = 0
       THEN Set(p, Raise(Emit(proc[p], "No image generated.", <<>>),
                         "SystemExit"))
       ELSE LET d == image_data_of(proc[p].parts[k].data) IN
            IF d = Raised
            THEN Set(p, Raise(proc[p], "binascii.Error"))
            ELSE Set(p, [proc[p] EXCEPT !.image_data = d, !.pc = "write_raw"])
  /\ UNCHANGED <<fs, runs>>

\* the loop over the parts of the first candidate, up to the decoding of
\* the first inline payload
scan_parts(p) ==
  /\ proc[p].pc = "scan"
  /\ LET k == FirstInline(proc[p].parts) IN
       IF k = 0
       THEN Set(p, [Emit(proc[p], "No image generated.", <<>>)
                    EXCEPT !.pc = "done"])
       ELSE LET d == image_data_of(proc[p].parts[k].data) IN
            IF d = Raised
            THEN Set(p, Raise(proc[p], "binascii.Error"))
            ELSE Set(p, [proc[p] EXCEPT !.image_data = d, !.pc = "write_raw"])
  /\ UNCHANGED <<fs, runs>>

\* open(raw_output_path, 'wb') and f.write(image_data)
write_raw(p) ==
  /\ proc[p].pc = "write_raw"
  /\ LET path == raw_output_path(proc[p].script, proc[p].output_name) IN
       /\ fs' = [fs EXCEPT ![path] = File(proc[p].image_data)]
       /\ Set(p, [Emit(Touch(proc[p], path), "Raw icon saved", <<>>) EXCEPT
                    !.raw_writes = @ + 1, !.pc = "exists"])
  /\ UNCHANGED runs

\* the open fails (nothing changes) or the write fails after the open
\* truncated the file
write_raw_error(p) ==
  /\ proc[p].pc = "write_raw"
  /\ LET path == raw_output_path(proc[p].script, proc[p].output_name) IN
       \/ fs' = fs /\ Set(p, Raise(proc[p], "OSError"))
       \/ /\ fs' = [fs EXCEPT ![path] = File(<<>>)]
          /\ Set(p, Raise(Touch(proc[p], path), "OSError"))
  /\ UNCHANGED runs

(***************************************************************************)
(* generate_icon_sizes                                                     *)
(***************************************************************************)
\* variant: an existing directory is kept and filled (mkdir with
\* exist_ok, no rmtree)
dir_exists_keep(p) ==
  /\ proc[p].pc = "exists"
  /\ LET path == iconset_path(proc[p].script, proc[p].output_name) IN
       Set(p, [proc[p] EXCEPT
                 !.pc = IF fs[path].type # "none" THEN "open" ELSE "mkdir"])
  /\ UNCHANGED <<fs, runs>>

\* if output_dir.exists():
dir_exists(p) ==
  /\ proc[p].pc = "exists"
  /\ LET path == iconset_path(proc[p].script, proc[p].output_name) IN
       Set(p, [proc[p] EXCEPT
                 !.pc = IF fs[path].type # "none" THEN "rmtree" ELSE "mkdir"])
  /\ UNCHANGED <<fs, runs>>

\* shutil.rmtree(output_dir)
rmtree(p) ==
  /\ proc[p].pc = "rmtree"
  /\ LET path == iconset_path(proc[p].script, proc[p].output_name) IN
       IF fs[path].type = "dir"
       THEN /\ fs' = [fs EXCEPT ![path] = NoFile]
            /\ Set(p, [Touch(proc[p], path) EXCEPT
                         !.rmtrees = @ + 1, !.pc = "mkdir"])
       ELSE /\ fs' = fs
            /\ Set(p, Raise(proc[p], "FileNotFoundError"))
  /\ UNCHANGED runs

\* output_dir.mkdir(parents=True), without exist_ok
mkdir(p) ==
  /\ proc[p].pc = "mkdir"
  /\ LET path == iconset_path(proc[p].script, proc[p].output_name) IN
       IF fs[path].type = "none"
       THEN /\ fs' = [fs EXCEPT ![path] = Dir({})]
            /\ Set(p, [Touch(proc[p], path) EXCEPT
                         !.mkdirs = @ + 1, !.pc = "open"])
       ELSE /\ fs' = fs
            /\ Set(p, Raise(proc[p], "FileExistsError"))
  /\ UNCHANGED runs

\* Image.open(source_path).convert("RGBA"): the file is read back from disk
open_image(p) ==
  /\ proc[p].pc = "open"
  /\ LET path == raw_output_path(proc[p].script, proc[p].output_name) IN
       IF fs[path].type = "file" /\ IsImage(fs[path].data)
       THEN Set(p, [proc[p] EXCEPT !.img = fs[path].data, !.i = 1,
                      !.pc = "save"])
       ELSE Set(p, Raise(proc[p],
                         IF fs[path].type = "file"
                         THEN "UnidentifiedImageError"
                         ELSE "FileNotFoundError"))
  /\ UNCHANGED <<fs, runs>>

\* one resize, mask, paste and save of the loop; the last one is followed
\* by the "Generated iconset" line
save_icon(p) ==
  /\ proc[p].pc = "save"
  /\ LET path == iconset_path(proc[p].script, proc[p].output_name)
         e == SaveEntry(proc[p].i, proc[p].img)
     IN IF fs[path].type = "dir"
        THEN /\ fs' = [fs EXCEPT ![path] = Dir(SaveInto(@.entries, e))]
             /\ IF proc[p].i = NumSaves
                THEN Set(p, [Emit(Touch(proc[p], path),
                                  "Generated iconset", <<>>)
                             EXCEPT !.pc = "icns"])
                ELSE Set(p, [Touch(proc[p], path) EXCEPT !.i = @ + 1])
        ELSE /\ fs' = fs
             /\ Set(p, Raise(proc[p], "FileNotFoundError"))
  /\ UNCHANGED runs

\* variant: the error is caught and the run goes on to generate_icns
os_error_swallowed(p) ==
  /\ proc[p].pc \in {"rmtree", "mkdir", "open", "save"}
  /\ Set(p, [proc[p] EXCEPT !.pc = "icns"])
  /\ UNCHANGED <<fs, runs>>

\* an operating-system error in a step of generate_icon_sizes (permission,
\* full disk, memory): uncaught, the file system stays as it is
os_error(p) ==
  /\ proc[p].pc \in {"rmtree", "mkdir", "open", "save"}
  /\ Set(p, Raise(proc[p], "OSError"))
  /\ UNCHANGED <<fs, runs>>

(***************************************************************************)
(* generate_icns                                                           *)
(***************************************************************************)
\* what the subprocess is started on
Invoke(q) ==
  [q EXCEPT !.tool_calls = @ + 1,
     !.packaged = fs[iconset_path(q.script, q.output_name)].entries]

\* iconutil exits 0 and has written the container
iconutil_ok(p) ==
  /\ proc[p].pc = "icns"
  /\ fs[iconset_path(proc[p].script, proc[p].output_name)].type = "dir"
  /\ LET q == Invoke(proc[p]) IN
       /\ fs' = [fs EXCEPT ![icns_path(q.script, q.output_name)] =
                              Icns(q.packaged)]
       /\ Set(p, [Emit(Touch(q, icns_path(q.script, q.output_name)),
                        "Successfully compiled .icns", <<>>)
                   EXCEPT !.tool = "ok", !.pc = "done"])
  /\ UNCHANGED runs

\* variant: the failing tool leaves an empty container behind
iconutil_failed_writes(p, stderrs) ==
  /\ proc[p].pc = "icns"
  /\ \E err \in stderrs :
       LET q == [Invoke(proc[p]) EXCEPT !.tool = "failed"] IN
         IF decode(err) = Raised
         THEN Set(p, Raise(q, "UnicodeDecodeError"))
         ELSE Set(p, [Emit(q, "Error running iconutil", decode(err))
                      EXCEPT !.pc = "done"])
  /\ fs' = [fs EXCEPT ![icns_path(proc[p].script, proc[p].output_name)] =
                         Icns({})]
  /\ UNCHANGED runs

\* iconutil exits non-zero: CalledProcessError is caught and its stderr
\* decoded for the message
iconutil_failed(p, stderrs) ==
  /\ proc[p].pc = "icns"
  /\ \E err \in stderrs :
       LET q == [Invoke(proc[p]) EXCEPT !.tool = "failed"] IN
         IF decode(err) = Raised
         THEN Set(p, Raise(q, "UnicodeDecodeError"))
         ELSE Set(p, [Emit(q, "Error running iconutil", decode(err))
                      EXCEPT !.pc = "done"])
  /\ UNCHANGED <<fs, runs>>

\* no iconutil on the PATH: FileNotFoundError is caught
iconutil_not_found(p) ==
  /\ proc[p].pc = "icns"
  /\ Set(p, [Emit([Invoke(proc[p]) EXCEPT !.tool = "not_found"],
                  "Warning: 'iconutil' not found", <<>>)
             EXCEPT !.pc = "done"])
  /\ UNCHANGED <<fs, runs>>

(***************************************************************************)
(* Runs                                                                    *)
(***************************************************************************)
\* the next invocation of the script, on the files the earlier ones left
next_run(p) ==
  /\ proc[p].pc = "done"
  /\ runs < MaxRuns
  /\ runs' = runs + 1
  /\ Set(p, [Fresh("start") EXCEPT !.script = proc[p].script])
  /\ UNCHANGED fs

StaleEntry(n) ==
  [name |-> n, w |-> 64, h |-> 64, radius |-> 0, src |-> <<137, 80, 0>>]

\* what an iconset directory may hold before the first run
InitDirs ==
  { NoFile, Dir({}), Dir({StaleEntry(<<"old.png">>)}),
    Dir({StaleEntry(<<"old.png">>), StaleEntry(icon_name(16, FALSE))}) }

EmptyFs == [path \in Paths |-> NoFile]

Init ==
  /\ runs = 1
  /\ \E d \in InitDirs :
       fs = [path \in Paths |-> IF path[2] = ".iconset" THEN d ELSE NoFile]
  /\ \E s \in Scripts :
       proc = [p \in Procs |->
                 IF p = 1 THEN [Fresh("start") EXCEPT !.script = s]
                 ELSE Fresh("idle")]

Step(p) ==
  \/ main(p, Argvs)
  \/ main_fixed(p)
  \/ input_theme(p, ThemeInputs)
  \/ input_name(p, NameInputs)
  \/ input_style(p, StyleInputs)
  \/ generate_icon(p)
  \/ generate_content(p, Responses)
  \/ generate_content_error(p)
  \/ scan_parts(p)
  \/ write_raw(p)
  \/ write_raw_error(p)
  \/ dir_exists(p)
  \/ rmtree(p)
  \/ mkdir(p)
  \/ open_image(p)
  \/ save_icon(p)
  \/ os_error(p)
  \/ iconutil_ok(p)
  \/ iconutil_failed(p, Stderrs)
  \/ iconutil_not_found(p)
  \/ next_run(p)

Next == \E p \in Procs : Step(p)

Spec == Init /\ [][Next]_vars

(***************************************************************************)
(* Two invocations of generate_icon_custom.py running at the same time     *)
(***************************************************************************)
ConcArgvs ==
  { <<(<<"prog">>), Theme>>,
    <<(<<"prog">>), Theme, weather>> }

ConcResponses ==
  { <<InlinePart(Bytes(ImgA))>>, <<InlinePart(Str(<<"i", "V", "A", "C">>))>> }

InitConc ==
  /\ runs = MaxRuns
  /\ fs = EmptyFs
  /\ proc = [p \in Procs |-> Fresh("start")]

StepConc(p) ==
  \/ main(p, ConcArgvs)
  \/ generate_icon(p)
  \/ generate_content(p, ConcResponses)
  \/ generate_content_error(p)
  \/ scan_parts(p)
  \/ write_raw(p)
  \/ write_raw_error(p)
  \/ dir_exists(p)
  \/ rmtree(p)
  \/ mkdir(p)
  \/ open_image(p)
  \/ save_icon(p)
  \/ os_error(p)
  \/ iconutil_ok(p)
  \/ iconutil_failed(p, Stderrs)
  \/ iconutil_not_found(p)

NextConc == \E p \in Procs : StepConc(p)

SpecConc == InitConc /\ [][NextConc]_vars

(***************************************************************************)
(* The prompt builder on its own, over more themes and style keys          *)
(***************************************************************************)
PromptThemes ==
  { <<>>, <<"W">>, <<" ">>, <<"Weather", " ", "App">>, <<"modern">>,
    <<"\"">>, <<"{style_desc}">>, <<"Music", "\n">> }

PromptStyles ==
  { <<"modern">>, <<"flat">>, <<"skeuomorphic">>, <<"minimal">>,
    <<"playful">>, <<>>, <<"Modern">>, <<"retro">>, <<"flat", " ">>,
    <<" ", "modern">>, <<"mod", "ern">> }

InitPrompt ==
  /\ runs = MaxRuns
  /\ fs = EmptyFs
  /\ \E t \in PromptThemes, st \in PromptStyles :
       proc = [p \in Procs |->
                 IF p = 1
                 THEN [Fresh("generate") EXCEPT !.theme = t, !.style = st]
                 ELSE Fresh("idle")]

NextPrompt == \E p \in Procs : generate_icon(p)

SpecPrompt == InitPrompt /\ [][NextPrompt]_vars

(***************************************************************************)
(* Properties                                                              *)
(***************************************************************************)
RawOf(q) == raw_output_path(q.script, q.output_name)
SetOf(q) == iconset_path(q.script, q.output_name)
IcnsOf(q) == icns_path(q.script, q.output_name)

StdoutHas(q, m) == \E k \in 1..Len(q.stdout) : q.stdout[k].msg = m
LastLine(q) == IF q.stdout = <<>> THEN "" ELSE q.stdout[Len(q.stdout)].msg

\* generate_icon_sizes has returned
SizesCompleted(q) == StdoutHas(q, "Generated iconset")

BaseSizes == {16, 32, 128, 256, 512}

\* exactly the ten files of an iconset, by name and pixel size
ExactIconset(E) ==
  /\ Cardinality(E) = 10
  /\ Cardinality({e.name : e \in E}) = 10
  /\ \A s \in BaseSizes :
       /\ \E e \in E : /\ e.name = <<"icon_", s, "x", s, "", ".png">>
                       /\ e.w = s /\ e.h = s
       /\ \E e \in E : /\ e.name = <<"icon_", s, "x", s, "@2x", ".png">>
                       /\ e.w = 2 * s /\ e.h = 2 * s

\* C1: once generate_icon_sizes has completed, the iconset directory holds
\* exactly the 10 files icon_{s}x{s}.png (s x s) and icon_{s}x{s}@2x.png
\* (2s x 2s) for s in {16, 32, 128, 256, 512} and nothing else, whatever it
\* held before.
C1_IconsetExact ==
  \A p \in Procs :
    SizesCompleted(proc[p]) =>
      /\ fs[SetOf(proc[p])].type = "dir"
      /\ ExactIconset(fs[SetOf(proc[p])].entries)

\* the directory existed before the call and was reset
C1_Witness ==
  \E p \in Procs : SizesCompleted(proc[p]) /\ proc[p].rmtrees = 1

\* C2: in every run iconutil is invoked at most once, and only from a state
\* in which the request, the raw write, the directory reset and all saves
\* have completed and the staging directory holds all 10 PNGs.
C2_PackagingOnlyWhenComplete ==
  [][\A p \in Procs :
       /\ proc'[p].tool_calls <= 1
       /\ proc'[p].tool_calls > proc[p].tool_calls =>
            /\ proc[p].tool_calls = 0
            /\ proc[p].exc = ""
            /\ proc[p].requests = 1
            /\ proc[p].raw_writes = 1
            /\ proc[p].mkdirs = 1
            /\ SizesCompleted(proc[p])
            /\ fs[SetOf(proc[p])].type = "dir"
            /\ ExactIconset(fs[SetOf(proc[p])].entries)]_vars

C2_Witness ==
  \E p \in Procs : proc[p].tool_calls = 1 /\ proc[p].pc = "done"

\* the response of this run arrived and none of its parts has inline data
NoImageCase(q) ==
  /\ q.requests = 1
  /\ q.pc \notin {"request", "scan"}
  /\ q.exc # "APIError"
  /\ FirstInline(q.parts) = 0

\* C3: when no part of the response carries inline image data,
\* generate_icon writes no file, leaves the staging directory alone, does
\* not invoke iconutil, prints "No image generated." and the process ends
\* with exit status 0.
C3_NoImageSoftCompletion ==
  \A p \in Procs :
    NoImageCase(proc[p]) =>
      /\ proc[p].pc = "done"
      /\ proc[p].touched = {}
      /\ proc[p].raw_writes = 0
      /\ proc[p].rmtrees = 0 /\ proc[p].mkdirs = 0
      /\ proc[p].tool_calls = 0
      /\ LastLine(proc[p]) = "No image generated."
      /\ ExitStatus(proc[p]) = 0

\* a response of text parts only, and one without parts
C3_Witness ==
  \E p \in Procs :
    /\ NoImageCase(proc[p])
    /\ Len(proc[p].parts) = MaxParts

\* C4 as stated: at the end of a run the container file exists only if
\* iconutil succeeded in that run.
C4_ContainerOnlyIfSucceeded ==
  \A p \in Procs :
    (/\ proc[p].pc = "done"
     /\ IcnsOf(proc[p]) \in Paths
     /\ fs[IcnsOf(proc[p])].type # "none")
      => proc[p].tool = "ok"

\* C4 amended: the container file is created or replaced only by a step in
\* which iconutil succeeds, and then it is the compilation of the staging
\* directory; in every other step (tool failure, tool not found, a run
\* ending before packaging) every container file stays as it was.
C4_ContainerChangesOnlyOnSuccess ==
  [][\A path \in Paths :
       (path[2] = ".icns" /\ fs'[path] # fs[path]) =>
         \E p \in Procs :
           /\ proc[p].pc = "icns"
           /\ proc'[p].tool = "ok"
           /\ path = IcnsOf(proc[p])
           /\ fs'[path] = Icns(fs[SetOf(proc[p])].entries)]_vars

\* a run whose packaging failed ends with the container of an earlier run
C4_Witness ==
  \E p \in Procs :
    /\ proc[p].pc = "done"
    /\ proc[p].tool \in {"failed", "not_found"}
    /\ fs[IcnsOf(proc[p])].type = "icns"

\* C5: when iconutil exits non-zero or is not found, generate_icns raises
\* nothing, prints a diagnostic, and the run ends normally with the raw
\* file and the 10 PNGs in place.
C5_ToolFailureIsCaught ==
  \A p \in Procs :
    (proc[p].pc = "done" /\ proc[p].tool \in {"failed", "not_found"}) =>
      /\ proc[p].exc = ""
      /\ ExitStatus(proc[p]) = 0
      /\ LastLine(proc[p]) \in
           {"Error running iconutil", "Warning: 'iconutil' not found"}
      /\ fs[RawOf(proc[p])] = File(proc[p].image_data)
      /\ ExactIconset(fs[SetOf(proc[p])].entries)

\* C6: when the generation call fails, the run ends abnormally after
\* exactly one request, having touched no file and invoked no tool.
C6_ServiceErrorIsFatal ==
  \A p \in Procs :
    proc[p].exc = "APIError" =>
      /\ proc[p].pc = "done"
      /\ ExitStatus(proc[p]) = 1
      /\ proc[p].requests = 1
      /\ proc[p].touched = {}
      /\ proc[p].raw_writes = 0
      /\ proc[p].rmtrees = 0 /\ proc[p].mkdirs = 0
      /\ proc[p].tool_calls = 0
      /\ ~StdoutHas(proc[p], "No image generated.")

\* a failed request in a run that found files of an earlier run
C6_Witness ==
  \E p \in Procs :
    /\ proc[p].exc = "APIError"
    /\ fs[SetOf(proc[p])].type = "dir"

\* the response of this run arrived and has a part with inline data
ImageCase(q) ==
  /\ q.requests = 1
  /\ q.pc \notin {"request", "scan"}
  /\ q.exc # "APIError"
  /\ FirstInline(q.parts) # 0

\* the payload of the first inline part, in list order
FirstPayload(q) ==
  LET k == CHOOSE i \in 1..Len(q.parts) :
             q.parts[i].inline /\ \A j \in 1..(i - 1) : ~q.parts[j].inline
      d == q.parts[k].data
  IN IF d.kind = "bytes" THEN d.bytes ELSE b64decode(d.text)

\* C7 as stated: for every response with an inline part, at the end of
\* the run the raw file holds the first inline payload, it was written
\* once and the packager ran once.
C7_FirstPartAlwaysPackaged ==
  \A p \in Procs :
    (ImageCase(proc[p]) /\ proc[p].pc = "done") =>
      /\ fs[RawOf(proc[p])] = File(FirstPayload(proc[p]))
      /\ proc[p].raw_writes = 1
      /\ proc[p].tool_calls = 1

\* C7 amended: only the first inline part is used.  The raw file is
\* written at most once and, when its write completed, holds that part's
\* payload (bytes unchanged, base64 text decoded); every PNG and the
\* packaged set derive from that payload; the packager runs at most once,
\* and exactly once when the run ends without an exception; no path other
\* than the run's own three is touched.
C7_FirstPartOnly ==
  \A p \in Procs :
    ImageCase(proc[p]) =>
      LET q == proc[p]
          d == FirstPayload(q)
      IN /\ q.raw_writes <= 1 /\ q.tool_calls <= 1
         /\ q.raw_writes = 1 => fs[RawOf(q)] = File(d)
         /\ q.mkdirs = 1 => \A e \in fs[SetOf(q)].entries : e.src = d
         /\ \A e \in q.packaged : e.src = d
         /\ q.tool = "ok" => fs[IcnsOf(q)] = Icns(q.packaged)
         /\ q.touched \subseteq {RawOf(q), SetOf(q), IcnsOf(q)}
         /\ (q.pc = "done" /\ q.exc = "")
              => (q.raw_writes = 1 /\ q.tool_calls = 1)
         /\ q.tool_calls = 1
              => (d # Raised /\ IsImage(d) /\ q.raw_writes = 1)

\* two inline parts with different payloads, packaged from the first
C7_Witness ==
  \E p \in Procs :
    /\ ImageCase(proc[p])
    /\ proc[p].tool = "ok"
    /\ Len(proc[p].parts) = 2
    /\ proc[p].parts[1].inline /\ proc[p].parts[2].inline
    /\ proc[p].parts[1].data # proc[p].parts[2].data

\* the script was started without arguments
Interactive(q) == StdoutHas(q, "Icon Generator")

\* C8: in interactive mode, a theme that is empty after stripping ends the
\* process at once with the message and status 1: no further input, no
\* request, no file written or deleted.
C8_EmptyThemeExits ==
  \A p \in Procs :
    (Interactive(proc[p]) /\ proc[p].inputs >= 1 /\ proc[p].theme = <<>>) =>
      /\ proc[p].pc = "done"
      /\ proc[p].exc = "SystemExit"
      /\ ExitStatus(proc[p]) = 1
      /\ LastLine(proc[p]) = "Theme is required."
      /\ proc[p].inputs = 1
      /\ proc[p].requests = 0
      /\ proc[p].touched = {}
      /\ proc[p].tool_calls = 0

\* the exit happens in a directory that holds files of an earlier run
C8_Witness ==
  \E p \in Procs :
    /\ proc[p].exc = "SystemExit"
    /\ runs > 1
    /\ fs[<<custom_icon, "_generated.png">>].type = "file"

\* C9: build_prompt never fails; for a style key outside the table the
\* prompt equals the prompt for "modern", and for each of the five keys it
\* embeds that key's description.
C9_UnknownStyleIsModern ==
  \A p \in Procs :
    (proc[p].pc = "request" /\ proc[p].script = "custom") =>
      LET q == proc[p] IN
        /\ q.prompt # Raised
        /\ Len(q.prompt) = 2 * Len(q.theme) + 5
        /\ (~(Len(q.style) = 1 /\ q.style[1] \in StyleKeys)) =>
             q.prompt = build_prompt(q.theme, <<"modern">>)
        /\ \A k \in StyleKeys :
             q.style = <<k>> =>
               /\ q.prompt[Len(q.prompt) - 1] = style_hints[k]
               /\ k # "modern" =>
                    q.prompt # build_prompt(q.theme, <<"modern">>)

\* a prompt built for a key that differs from a table key only in case
C9_Witness ==
  \E p \in Procs :
    /\ proc[p].pc = "request"
    /\ proc[p].style = <<"Modern">>
    /\ proc[p].theme # <<>>

\* the two runs write under the same output name
SameName == proc[1].output_name = proc[2].output_name

Started(q) == q.pc \notin {"start", "idle"}

\* C10: two concurrent runs with different output names never touch each
\* other's raw file, staging directory or container, and neither of them
\* fails on a missing or already existing directory or packages fewer than
\* 10 files; a run that does is one of two runs sharing an output name.
C10_RaceOnlyOnSameName ==
  \A p \in Procs :
    LET q == proc[p]
        o == proc[3 - p]
    IN (Started(q) /\ Started(o) /\ ~SameName) =>
         /\ q.touched \cap {RawOf(o), SetOf(o), IcnsOf(o)} = {}
         /\ q.exc \notin {"FileNotFoundError", "FileExistsError"}
         /\ q.tool_calls = 1 =>
              /\ ExactIconset(q.packaged)
              /\ \A e \in q.packaged : e.src = q.img
         /\ q.raw_writes = 1 => fs[RawOf(q)] = File(q.image_data)
         /\ q.mkdirs = 1 => \A e \in fs[SetOf(q)].entries : e.src = q.img
         /\ q.tool = "ok" => fs[IcnsOf(q)] = Icns(q.packaged)

\* the destructive race: a run packages a directory the other run has
\* reset and only partly refilled
C10_Witness ==
  \E p \in Procs :
    /\ SameName
    /\ proc[p].tool_calls = 1
    /\ Cardinality(proc[p].packaged) < 10
    /\ proc[3 - p].rmtrees = 1

====
